---------------------------- MODULE Spec2Model ----------------------------
(***************************************************************************)
(* A model of the QA pipeline scripts of PlainsightAI-takehome/qa_tests:   *)
(*                                                                         *)
(*   final_qa_validation.py  QAPipelineValidator and its main              *)
(*   run_qa_pipeline.py      create_basic_html_report and main             *)
(*                                                                         *)
(* Text is modelled as sequences of one-character strings, so that the     *)
(* parsing the scripts do (split, substring tests, int) is computed and    *)
(* not assumed.  Two tests of the suite are modelled beside the scripts:    *)
(*                                                                         *)
(*   integration/test_pipeline_integration.py                              *)
(*                           test_concurrent_processing_bug                *)
(*   end_to_end/test_video_pipeline_e2e.py                                 *)
(*                           test_pipeline_failure_recovery                *)
(*                                                                         *)
(* Six specifications share the module:                                    *)
(*                                                                         *)
(*   SpecSummarize   run_pytest_command and the count parsing of           *)
(*                   validate_test_collection, applied to one command      *)
(*                   outcome drawn in Init                                 *)
(*   SpecRunner      run_qa_pipeline.main, re-invoked over one file system *)
(*   SpecValidator   generate_validation_report and final_qa_validation's  *)
(*                   main                                                  *)
(*   SpecWorkers     the five threads of test_concurrent_processing_bug    *)
(*   SpecRecovery    the retry loop of test_pipeline_failure_recovery,     *)
(*                   under weak fairness                                   *)
(*   SpecPort        find_available_port of run_qa_pipeline.py             *)
(***************************************************************************)
EXTENDS Integers, Sequences, FiniteSets, TLC

VARIABLES
    \* ---- SpecSummarize: one iteration of the loop of validate_test_collection
    sum_pc,        \* "ready" before the loop body ran, "done" after
    in_kind,       \* how the command ended (see OutcomeKinds)
    in_rc,         \* its exit code, when it ran to its end
    in_err,        \* what it wrote to stderr, or the text of the error raised
    in_shape,      \* which output the command printed (see Stdout)
    in_M,          \* the numerator of an "M/N tests collected" summary
    in_N,          \* the count of the summary line
    in_ids,        \* how many node-id lines precede the summary
    cmd_success,   \* run_pytest_command's first component
    cmd_stdout,    \* run_pytest_command's second component, as characters
    cmd_stderr,    \* run_pytest_command's third component, as characters
    count          \* collection_results[test_type]; Unset before the body ran

sumVars == <<sum_pc, in_kind, in_rc, in_err, in_shape, in_M, in_N, in_ids,
             cmd_success, cmd_stdout, cmd_stderr, count>>

VARIABLES
    \* ---- SpecRunner: run_qa_pipeline.main and the two directories
    pc,             \* where main stands: "start", "config", "pytest", "running",
                    \* "glob", "loop", "generate", "install", "fallback",
                    \* "widgets", "open", "finish", then "done" or "crashed"
    run,            \* the number of this invocation of main, from 1
    results_exists, \* os.path.exists(ALLURE_RESULTS_DIR)
    allure_results, \* the files of ALLURE_RESULTS_DIR
    report_exists,  \* os.path.exists(ALLURE_REPORT_DIR)
    allure_report,  \* the files of ALLURE_REPORT_DIR
    returncode,     \* result.returncode of the test command; Unset before it ran
    todo,           \* the files of the glob the loop has not visited yet
    total,
    passed,
    failed,
    cand,           \* the index into allure_commands of the next candidate
    allure_found,
    html,           \* what create_basic_html_report rendered; NoHtml if nothing
    opened,         \* how step 6 opened the report; Unset before
    error,          \* the exception that left main, "none" if none did
    exit_code,      \* the exit status of the process; Unset while it runs
    child,          \* TRUE while the test subprocess of step 3 runs
    environment_properties,
                    \* the text of allure-results/environment.properties, as
                    \* characters; empty when there is no such file
    history_data,   \* the "data" of the entries written to history-trend.json,
                    \* in the order of the list; <<>> before step 5 wrote it
    categories_trend_data,  \* the same for categories-trend.json
    retries_trend_data,     \* the same for retry-trend.json
    duration_trend_data     \* the same for duration-trend.json

runVars == <<pc, run, results_exists, allure_results, report_exists, allure_report,
             returncode, todo, total, passed, failed, cand, allure_found, html,
             opened, error, exit_code, child, environment_properties,
             history_data, categories_trend_data, retries_trend_data,
             duration_trend_data>>

\* the trend widgets of step 5
trendVars == <<history_data, categories_trend_data, retries_trend_data,
               duration_trend_data>>

VARIABLES
    \* ---- SpecValidator: QAPipelineValidator and final_qa_validation's main
    vpc,                \* where the validator stands: "start", "collect",
                        \* "allure_clear", "allure_cmd", "allure_end",
                        \* "regression", "bug_discovery", "pipeline", "returned",
                        \* "raised", "save", "summary", then "exited"
    vi,                 \* the index into validations of the running validation
    ci,                 \* the index of the next command of the validation
    v_exists,           \* self.allure_results.exists()
    v_json,             \* the number of *.json files in self.allure_results
    validation_results, \* self.validation_results
    ret,                \* what the validation returned; Unset while it runs
    validations,        \* results["validations"], in insertion order
    all_passed,
    passed_count,
    failed_count,
    overall_success,    \* results["overall_success"]; Unset before line 339
    v_exit,             \* the exit status of the process; Unset while it runs
    v_child,            \* TRUE while a test subprocess of the validator runs
    v_log               \* how the commands of the running validation ended, in
                        \* call order: what the validation did not keep of them

valVars == <<vpc, vi, ci, v_exists, v_json, validation_results, ret, validations,
             all_passed, passed_count, failed_count, overall_success, v_exit,
             v_child, v_log>>

VARIABLES
    \* ---- SpecWorkers: test_concurrent_processing_bug
    t_pc,          \* where the test stands: "spawn", "join", "assert", then
                   \* "passed" or "failed"
    started,       \* the number of threads started by the loop of line 98
    joined,        \* the number of threads joined by the loop of line 103
    w_pc,          \* per thread, where process_video stands: "new", "read",
                   \* "append", "write", "done"
    global_counter,\* per thread, the local of process_video
    has_counter,   \* hasattr(self, '_counter')
    counter,       \* self._counter, when it is set
    results        \* the list the threads append to

wrkVars == <<t_pc, started, joined, w_pc, global_counter, has_counter, counter,
             results>>

VARIABLES
    \* ---- SpecRecovery: the loop of test_pipeline_failure_recovery
    rec_pc,        \* "while", "try", "except", "backup", "verify", then "done"
    side_effect,   \* what the calls of unstable_processor.process still to
                   \* come do, in call order
    attempts,
    result,
    primary_calls, \* unstable_processor.process.call_count
    handle_calls,  \* recovery_manager.handle_failure.call_count
    backup_calls,  \* backup_processor.process.call_count
    failures,      \* the number of calls of the primary that raised
    verified       \* whether the assertions of lines 201-202 held; Unset before

recVars == <<rec_pc, side_effect, attempts, result, primary_calls, handle_calls,
             backup_calls, failures, verified>>

VARIABLES
    \* ---- SpecPort: find_available_port
    fp_pc,         \* "for" while the loop runs, then "returned"
    start_port,
    port,          \* the loop variable
    bind_raised,   \* the ports on which socket or bind raised OSError
    bound,         \* whether a bind succeeded
    fp_result      \* what the function returned; Unset before

portVars == <<fp_pc, start_port, port, bind_raised, bound, fp_result>>

vars == <<sumVars, runVars, valVars, wrkVars, recVars, portVars>>

\* the variables of the other specifications
NotSum == <<runVars, valVars, wrkVars, recVars, portVars>>
NotRun == <<sumVars, valVars, wrkVars, recVars, portVars>>
NotVal == <<sumVars, runVars, wrkVars, recVars, portVars>>
NotWrk == <<sumVars, runVars, valVars, recVars, portVars>>
NotRec == <<sumVars, runVars, valVars, wrkVars, portVars>>
NotPort == <<sumVars, runVars, valVars, wrkVars, recVars>>

Unset == "unset"

-----------------------------------------------------------------------------
(* Bounds *)

MaxCount == 12
MaxIds == 2

-----------------------------------------------------------------------------
(* Text: Python's str operations on sequences of characters *)

Digits == <<"0", "1", "2", "3", "4", "5", "6", "7", "8", "9">>

IsDigit(c) == \E i \in 1..10 : Digits[i] = c

DigitVal(c) == (CHOOSE i \in 1..10 : Digits[i] = c) - 1

\* str(n) for n >= 0, as the test framework prints a count
RECURSIVE ToStr(_)
ToStr(n) ==
    IF n < 10 THEN <<Digits[n + 1]>>
    ELSE ToStr(n \div 10) \o <<Digits[(n % 10) + 1]>>

\* sub in s
Contains(s, sub) ==
    \E i \in 1..(Len(s) - Len(sub) + 1) : SubSeq(s, i, i + Len(sub) - 1) = sub

\* s.split(sep) for a one-character sep: every piece, the empty ones included
RECURSIVE SplitOn(_, _)
SplitOn(s, sep) ==
    IF \A i \in 1..Len(s) : s[i] # sep THEN <<s>>
    ELSE LET k == CHOOSE i \in 1..Len(s) :
                     s[i] = sep /\ \A j \in 1..(i - 1) : s[j] # sep
         IN <<SubSeq(s, 1, k - 1)>> \o SplitOn(SubSeq(s, k + 1, Len(s)), sep)

IsSpace(c) == c \in {" ", "\t", "\n", "\r"}

\* s.split(): the maximal runs of non-whitespace characters
RECURSIVE SplitWs(_)
SplitWs(s) ==
    IF \A i \in 1..Len(s) : IsSpace(s[i]) THEN <<>>
    ELSE LET b == CHOOSE i \in 1..Len(s) :
                     ~IsSpace(s[i]) /\ \A j \in 1..(i - 1) : IsSpace(s[j])
             e == CHOOSE i \in b..Len(s) :
                     /\ \A j \in b..i : ~IsSpace(s[j])
                     /\ (i = Len(s) \/ IsSpace(s[i + 1]))
         IN <<SubSeq(s, b, e)>> \o SplitWs(SubSeq(s, e + 1, Len(s)))

RECURSIVE DigitsValue(_)
DigitsValue(s) ==
    IF s = <<>> THEN 0
    ELSE 10 * DigitsValue(SubSeq(s, 1, Len(s) - 1)) + DigitVal(s[Len(s)])

\* the digits of an int literal: digits, single underscores between them
ValidDigits(s) ==
    /\ s # <<>>
    /\ \A i \in 1..Len(s) : IsDigit(s[i]) \/ s[i] = "_"
    /\ IsDigit(s[1]) /\ IsDigit(s[Len(s)])
    /\ \A i \in 1..(Len(s) - 1) : ~(s[i] = "_" /\ s[i + 1] = "_")

\* int(s): ok is FALSE where Python raises ValueError
ParseInt(s) ==
    LET signed == s # <<>> /\ s[1] \in {"+", "-"}
        body == IF signed THEN SubSeq(s, 2, Len(s)) ELSE s
        digs == SelectSeq(body, IsDigit)
    IN IF ValidDigits(body)
       THEN [ok |-> TRUE,
             val |-> IF signed /\ s[1] = "-" THEN 0 - DigitsValue(digs)
                     ELSE DigitsValue(digs)]
       ELSE [ok |-> FALSE, val |-> 0]


-----------------------------------------------------------------------------
(* The words the scripts look for, and the lines the test framework prints *)

Collected == <<"c", "o", "l", "l", "e", "c", "t", "e", "d">>
Test == <<"t", "e", "s", "t">>
Slash == <<"/">>
Newline == "\n"

\* a node id printed by --collect-only -q, one per line
NodeIdLine == <<"u", "n", "i", "t", "/", "t", "e", "s", "t", "_", "a", ".", "p", "y", ":", ":", "t", "e", "s", "t", "_", "b">>
TestsCollectedTail == <<" ", "t", "e", "s", "t", "s", " ", "c", "o", "l", "l", "e", "c", "t", "e", "d", " ", "i", "n", " ", "0", ".", "1", "2", "s">>
OneTestCollectedTail == <<" ", "t", "e", "s", "t", " ", "c", "o", "l", "l", "e", "c", "t", "e", "d", " ", "i", "n", " ", "0", ".", "1", "2", "s">>
NoTestsRanLine == <<"n", "o", " ", "t", "e", "s", "t", "s", " ", "r", "a", "n", " ", "i", "n", " ", "0", ".", "1", "2", "s">>
NoTestsCollectedLine == <<"n", "o", " ", "t", "e", "s", "t", "s", " ", "c", "o", "l", "l", "e", "c", "t", "e", "d", " ", "i", "n", " ", "0", ".", "1", "2", "s">>

Shapes == {"plain", "fraction", "nocollected", "noint", "empty"}

\* the shapes with no parsable count token
NoTokenShapes == {"nocollected", "noint", "empty"}

SummaryLine(shape, m, n) ==
    CASE shape = "plain" ->
            ToStr(n) \o (IF n = 1 THEN OneTestCollectedTail ELSE TestsCollectedTail)
      [] shape = "fraction" -> ToStr(m) \o Slash \o ToStr(n) \o TestsCollectedTail
      [] shape = "nocollected" -> NoTestsRanLine
      [] shape = "noint" -> NoTestsCollectedLine

RECURSIVE IdLines(_)
IdLines(k) == IF k = 0 THEN <<>> ELSE NodeIdLine \o <<Newline>> \o IdLines(k - 1)

\* the text of a collect-only run: the node ids, an empty line, the summary
Stdout(shape, m, n, ids) ==
    IF shape = "empty" THEN <<>>
    ELSE IdLines(ids) \o <<Newline>> \o SummaryLine(shape, m, n) \o <<Newline>>

-----------------------------------------------------------------------------
(* run_pytest_command *)

NoText == <<>>

\* the second argument of line 59
TimedOutText == <<"C", "o", "m", "m", "a", "n", "d", " ", "t", "i", "m", "e", "d", " ", "o", "u", "t">>

\* what a command can write to stderr, and str(e) of an OSError of line 60
UsageErrorText == <<"E", "R", "R", "O", "R", ":", " ", "u", "s", "a", "g", "e", ":", " ", "p", "y", "t", "e", "s", "t">>
NoSuchFileText == <<"[", "E", "r", "r", "n", "o", " ", "2", "]", " ", "N", "o", " ", "s", "u", "c", "h", " ", "f", "i", "l", "e", ":", " ", "'", "p", "y", "t", "h", "o", "n", "'">>
ErrTexts == {NoText, UsageErrorText, NoSuchFileText}

\* how subprocess.run can end: the command ran to an exit code ("completed"),
\* it did not within the 300 s of line 55 and was killed (TimeoutExpired), or
\* it could not be started (OSError)
OutcomeKinds == {"completed", "timeout", "oserror"}

\* the exit codes of the test framework that the scripts tell apart
ReturnCodes == {0, 1, 2}

\* a mutant of run_pytest_command: no except branch for TimeoutExpired
run_pytest_commandNoTimeout(outcome) ==
    IF outcome.kind \in {"completed", "timeout"}
    THEN [success |-> outcome.rc = 0, stdout |-> outcome.out,
          stderr |-> outcome.err]
    ELSE [success |-> FALSE, stdout |-> NoText, stderr |-> outcome.err]

\* lines 44-61: success, stdout, stderr.  outcome.out and outcome.err are
\* what the command wrote before it ended, outcome.err the text of the
\* error when it could not be started
run_pytest_command(outcome) ==
    CASE outcome.kind = "completed" ->
            [success |-> outcome.rc = 0, stdout |-> outcome.out,
             stderr |-> outcome.err]
      [] outcome.kind = "timeout" ->
            [success |-> FALSE, stdout |-> NoText, stderr |-> TimedOutText]
      [] OTHER ->
            [success |-> FALSE, stdout |-> NoText, stderr |-> outcome.err]

-----------------------------------------------------------------------------
(* validate_test_collection: the body of its loop *)

IsCollectedLine(line) == Contains(line, Collected) /\ Contains(line, Test)

\* a mutant of FractionCount: the numerator instead of the denominator
FractionCountFirst(token) ==
    ParseInt(SplitOn(token, "/")[1])

\* int(line_parts[0].split("/")[1])
FractionCount(token) ==
    LET parts == SplitOn(token, "/")
    IN IF Len(parts) < 2 THEN [ok |-> FALSE, val |-> 0] ELSE ParseInt(parts[2])

\* lines 86-97: the count of the summary line; ok is FALSE when no line
\* holds both words, or when IndexError or ValueError is raised
ParseCount(stdout) ==
    LET lines == SplitOn(stdout, Newline)
        collected_line == SelectSeq(lines, IsCollectedLine)
    IN IF collected_line # <<>>
       THEN LET line_parts == SplitWs(collected_line[1])
            IN IF line_parts = <<>> THEN [ok |-> FALSE, val |-> 0]
               ELSE IF Contains(line_parts[1], Slash)
                    THEN FractionCount(line_parts[1])
                    ELSE ParseInt(line_parts[1])
       ELSE [ok |-> FALSE, val |-> 0]

\* the value stored in collection_results[test_type]
CollectCount(success, stdout) ==
    IF success
    THEN LET parsed == ParseCount(stdout)
         IN IF parsed.ok THEN parsed.val ELSE 0
    ELSE 0 - 1

\* the counts a summary line is drawn with: the small ones, and those of the
\* comment of line 90 and of the examples of the specification
Counts == (0..MaxCount) \cup {87, 128}

SumInit ==
    /\ sum_pc = "ready"
    /\ in_kind \in OutcomeKinds
    /\ in_rc \in (IF in_kind = "completed" THEN ReturnCodes ELSE {0})
    /\ in_err \in ErrTexts
    /\ in_shape \in Shapes
    /\ in_M \in Counts
    /\ in_N \in Counts
    /\ in_ids \in 0..MaxIds
    /\ cmd_success = Unset
    /\ cmd_stdout = Unset
    /\ cmd_stderr = Unset
    /\ count = Unset

\* how the command of this iteration ends, and what it wrote until then
InOutcome ==
    [kind |-> in_kind, rc |-> in_rc,
     out |-> Stdout(in_shape, in_M, in_N, in_ids), err |-> in_err]

\* lines 78-108 for one test type: the command, then the count
CollectOne ==
    /\ sum_pc = "ready"
    /\ LET r == run_pytest_command(InOutcome)
       IN /\ cmd_success' = r.success
          /\ cmd_stdout' = r.stdout
          /\ cmd_stderr' = r.stderr
          /\ count' = CollectCount(r.success, r.stdout)
    /\ sum_pc' = "done"
    /\ UNCHANGED <<in_kind, in_rc, in_err, in_shape, in_M, in_N, in_ids>>
    /\ UNCHANGED NotSum

SumNext == CollectOne


-----------------------------------------------------------------------------
(* run_qa_pipeline.py: the state of main and of the two directories        *)


MaxFiles == 3
MaxRuns == 2

\* the exit status of a Python process that an exception left
UncaughtExit == 1

\* len(allure_commands)
NumAllureCommands == 4

\* what a *-result.json file can hold: a JSON object with this status, JSON
\* that is no object, text that is no JSON, or nothing that can be opened
Statuses == {"passed", "failed", "broken", "skipped"}
KindOrder == <<"passed", "failed", "broken", "skipped", "nonobject", "badjson",
               "unreadable">>
Kinds == {KindOrder[i] : i \in 1..Len(KindOrder)}
KindIndex(k) == CHOOSE i \in 1..Len(KindOrder) : KindOrder[i] = k

\* a file: the part of its name after the uuid (the whole name when it has
\* none), the uuid, the invocation that wrote it, and what it holds
File(suffix, id, r, content) ==
    [suffix |-> suffix, id |-> id, run |-> r, content |-> content]

\* the result files a test run writes, one per test; as the uuids are
\* arbitrary, the contents are listed in the order of KindOrder
ResultSets(r) ==
    UNION {
      { {File("-result.json", i, r, c[i]) : i \in 1..k} :
          c \in {d \in [1..k -> Kinds] :
                   \A i \in 1..k, j \in 1..k :
                      i < j => KindIndex(d[i]) <= KindIndex(d[j])} }
      : k \in 0..MaxFiles }

\* the fixture containers allure-pytest writes beside the results
Containers(rs, r) ==
    IF rs = {} THEN {} ELSE {File("-container.json", 1, r, "nostatus")}

\* what was left behind before the first invocation: nothing, or the
\* directories of an earlier run (invocation 0)
StaleResults ==
    {File("environment.properties", 0, 0, "text"),
     File("executor.json", 0, 0, "nostatus"),
     File("history", 0, 0, "dir"),
     File("-result.json", 1, 0, "passed"),
     File("-result.json", 2, 0, "failed")}
StaleReport ==
    {File("index.html", 0, 0, "allure"),
     File("widgets", 0, 0, "dir"),
     File("widgets/history-trend.json", 0, 0, "json")}

\* nothing rendered by create_basic_html_report
NoHtml == [written |-> FALSE]

\* line 147
ENVIRONMENT == <<"S", "t", "a", "g", "e">>

RunLocalsInit ==
    /\ returncode = Unset
    /\ todo = {}
    /\ total = 0
    /\ passed = 0
    /\ failed = 0
    /\ cand = 1
    /\ allure_found = FALSE
    /\ html = NoHtml
    /\ opened = Unset
    /\ error = "none"
    /\ exit_code = Unset
    /\ child = FALSE
    /\ history_data = <<>>
    /\ categories_trend_data = <<>>
    /\ retries_trend_data = <<>>
    /\ duration_trend_data = <<>>

RunInit ==
    /\ pc = "start"
    /\ run = 1
    /\ \/ /\ results_exists = FALSE /\ allure_results = {}
          /\ report_exists = FALSE /\ allure_report = {}
          /\ environment_properties = NoText
       \/ /\ results_exists = TRUE /\ allure_results = StaleResults
          /\ report_exists = TRUE /\ allure_report = StaleReport
          /\ environment_properties = ENVIRONMENT
    /\ RunLocalsInit

-----------------------------------------------------------------------------
(* run_qa_pipeline.py: helpers *)

\* a mutant of RmTree: the directory is left as it was
RmTreeKeeps(exists, files) ==
    [exists |-> exists, files |-> files]

\* if os.path.exists(d): shutil.rmtree(d)
RmTree(exists, files) ==
    [exists |-> FALSE, files |-> {}]

\* open(name, "w") and the write: a file of that name is replaced
WriteFiles(dir, new) ==
    {f \in dir : \A g \in new : ~(g.suffix = f.suffix /\ g.id = f.id)} \cup new

\* glob.glob(f"{ALLURE_RESULTS_DIR}/*-result.json")
Glob(files) ==
    {f \in files : f.suffix = "-result.json"}

\* a mutant of AggregateStep: broken results are not counted as failed
AggregateStepNoBroken(content, t, p, f) ==
    CASE content \in {"unreadable", "badjson", "text", "dir"} -> <<t, p, f>>
      [] content = "passed" -> <<t + 1, p + 1, f>>
      [] content = "failed" -> <<t + 1, p, f + 1>>
      [] OTHER -> <<t + 1, p, f>>

\* a mutant of AggregateStep: JSON that is no object is not counted
AggregateStepSkipsNonObject(content, t, p, f) ==
    CASE content \in {"unreadable", "badjson", "text", "dir", "nonobject"} -> <<t, p, f>>
      [] content = "passed" -> <<t + 1, p + 1, f>>
      [] content \in {"failed", "broken"} -> <<t + 1, p, f + 1>>
      [] OTHER -> <<t + 1, p, f>>

\* the body of the loop over the result files: <<total, passed, failed>>
\* after a file holding content.  open or json.load raising leaves the three
\* as they were; data.get raising (JSON that is no object) does so after
\* total += 1
AggregateStep(content, t, p, f) ==
    CASE content \in {"unreadable", "badjson", "text", "dir"} -> <<t, p, f>>
      [] content = "nonobject" -> <<t + 1, p, f>>
      [] content = "passed" -> <<t + 1, p + 1, f>>
      [] content \in {"failed", "broken"} -> <<t + 1, p, f + 1>>
      [] OTHER -> <<t + 1, p, f>>

\* the report "allure generate --clean -o" writes
AllureReport(r) ==
    {File("index.html", 0, r, "allure"),
     File("widgets", 0, r, "dir"),
     File("widgets/summary.json", 0, r, "json")}

Max(a, b) == IF a >= b THEN a ELSE b
Min(a, b) == IF a <= b THEN a ELSE b

\* the "data" of an entry of history-trend.json
HistoryEntry(f, b, s, p, u, t) ==
    [failed |-> f, broken |-> b, skipped |-> s, passed |-> p, unknown |-> u,
     total |-> t]

\* lines 290-301: four fixed entries, then "Current" from the counts of the
\* aggregation loop
history_data_of(f, p, t) ==
    <<HistoryEntry(6, 3, 0, 26, 0, 35),
      HistoryEntry(4, 2, 1, 28, 0, 35),
      HistoryEntry(6, 3, 0, 26, 0, 35),
      HistoryEntry(9, 0, 0, 26, 0, 35),
      HistoryEntry(f, 0, 0, p, 0, t)>>

\* the "data" of an entry of categories-trend.json
CategoriesEntry(product, test, environment, automation) ==
    [product_defects |-> product, test_defects |-> test,
     environment_issues |-> environment, automation_issues |-> automation]

\* a mutant of CategoriesCurrent: every failure is a product defect as well
CategoriesCurrentAllProduct(f) ==
    CategoriesEntry(f, IF f > 0 THEN 1 ELSE 0, 0, 0)

\* line 317
CategoriesCurrent(f) ==
    CategoriesEntry(Max(f - 1, 0), IF f > 0 THEN 1 ELSE 0, 0, 0)

\* lines 307-318
categories_trend_data_of(f) ==
    <<CategoriesEntry(4, 2, 3, 0),
      CategoriesEntry(3, 1, 2, 1),
      CategoriesEntry(5, 2, 2, 0),
      CategoriesEntry(6, 1, 2, 0),
      CategoriesCurrent(f)>>

\* lines 324-335
retries_trend_data_of(f, t) ==
    <<[retry |-> 2, run |-> 35],
      [retry |-> 1, run |-> 35],
      [retry |-> 3, run |-> 35],
      [retry |-> 4, run |-> 35],
      [retry |-> Min(f, 2), run |-> t]>>

\* lines 341-352, in milliseconds
duration_trend_data_of(f) ==
    <<[duration |-> 12450],
      [duration |-> 11780],
      [duration |-> 13220],
      [duration |-> 14100],
      [duration |-> 11350 + (f * 200)]>>

\* the widgets step 5 writes
WidgetFiles(r) ==
    {File("widgets/executors.json", 0, r, "json"),
     File("widgets/environment.json", 0, r, "json"),
     File("widgets/history-trend.json", 0, r, "json"),
     File("widgets/categories-trend.json", 0, r, "json"),
     File("widgets/retry-trend.json", 0, r, "json"),
     File("widgets/duration-trend.json", 0, r, "json")}

HasFile(dir, name) == \E f \in dir : f.suffix = name

\* f"{(a/b*100):.1f}" in tenths of a percent, rounded half to even, b > 0
Tenths(a, b) ==
    LET q == (a * 1000) \div b
        r == (a * 1000) % b
    IN IF 2 * r > b THEN q + 1
       ELSE IF 2 * r < b THEN q
       ELSE IF q % 2 = 0 THEN q ELSE q + 1

\* an exception leaves main: the interpreter prints it and exits
Crash(e) ==
    /\ pc' = "crashed"
    /\ error' = e
    /\ exit_code' = UncaughtExit

-----------------------------------------------------------------------------
(* run_qa_pipeline.main, step by step *)

\* step 1, lines 151-159
Clean ==
    /\ pc = "start"
    /\ LET res == RmTree(results_exists, allure_results)
           rep == RmTree(report_exists, allure_report)
       IN /\ results_exists' = TRUE
          /\ allure_results' = WriteFiles(res.files, {File("history", 0, run, "dir")})
          /\ report_exists' = rep.exists
          /\ allure_report' = rep.files
          /\ environment_properties' =
                IF HasFile(res.files, "environment.properties")
                THEN environment_properties ELSE NoText
    /\ pc' = "config"
    /\ UNCHANGED <<run, returncode, todo, total, passed, failed, cand, allure_found,
                   html, opened, error, exit_code, child>>
    /\ UNCHANGED trendVars
    /\ UNCHANGED NotRun

\* step 2, lines 161-180
WriteConfig ==
    /\ pc = "config"
    /\ allure_results' =
          WriteFiles(allure_results,
                     {File("environment.properties", 0, run, "text"),
                      File("executor.json", 0, run, "nostatus")})
    /\ environment_properties' = ENVIRONMENT
    /\ pc' = "pytest"
    /\ UNCHANGED <<run, results_exists, report_exists, allure_report, returncode,
                   todo, total, passed, failed, cand, allure_found, html, opened,
                   error, exit_code, child>>
    /\ UNCHANGED trendVars
    /\ UNCHANGED NotRun

\* a mutant of StartPytest: the subprocess is started and not waited for
StartPytestNoWait ==
    /\ pc = "pytest"
    /\ child' = TRUE
    /\ pc' = "glob"
    /\ UNCHANGED <<run, results_exists, allure_results, report_exists,
                   allure_report, returncode, todo, total, passed, failed, cand,
                   allure_found, html, opened, error, exit_code,
                   environment_properties>>
    /\ UNCHANGED trendVars
    /\ UNCHANGED NotRun

\* step 3, line 191: subprocess.run starts the test command and waits
StartPytest ==
    /\ pc = "pytest"
    /\ child' = TRUE
    /\ pc' = "running"
    /\ UNCHANGED <<run, results_exists, allure_results, report_exists,
                   allure_report, returncode, todo, total, passed, failed, cand,
                   allure_found, html, opened, error, exit_code,
                   environment_properties>>
    /\ UNCHANGED trendVars
    /\ UNCHANGED NotRun

\* step 3, lines 191-195: the test command has written its results and ends;
\* subprocess.run returns
RunPytest ==
    /\ pc = "running"
    /\ child
    /\ \E rc \in ReturnCodes, rs \in ResultSets(run) :
          /\ returncode' = rc
          /\ allure_results' = allure_results \cup rs \cup Containers(rs, run)
    /\ child' = FALSE
    /\ pc' = "glob"
    /\ UNCHANGED <<run, results_exists, report_exists, allure_report, todo, total,
                   passed, failed, cand, allure_found, html, opened, error,
                   exit_code, environment_properties>>
    /\ UNCHANGED trendVars
    /\ UNCHANGED NotRun

\* lines 198-199
StartAggregate ==
    /\ pc = "glob"
    /\ total' = 0 /\ passed' = 0 /\ failed' = 0
    /\ todo' = Glob(allure_results)
    /\ pc' = "loop"
    /\ UNCHANGED <<run, results_exists, allure_results, report_exists,
                   allure_report, returncode, cand, allure_found, html, opened,
                   error, exit_code>>
    /\ UNCHANGED <<child, environment_properties>>
    /\ UNCHANGED trendVars
    /\ UNCHANGED NotRun

\* lines 199-209, one file
AggregateFile ==
    /\ pc = "loop"
    /\ \E file \in todo :
          LET c == AggregateStep(file.content, total, passed, failed)
          IN /\ total' = c[1] /\ passed' = c[2] /\ failed' = c[3]
             /\ todo' = todo \ {file}
    /\ UNCHANGED <<pc, run, results_exists, allure_results, report_exists,
                   allure_report, returncode, cand, allure_found, html, opened,
                   error, exit_code>>
    /\ UNCHANGED <<child, environment_properties>>
    /\ UNCHANGED trendVars
    /\ UNCHANGED NotRun

\* a mutant of EndAggregate: the test command is run again after the loop
EndAggregateRerunsTests ==
    /\ pc = "loop"
    /\ todo = {}
    /\ pc' = IF total = 0 THEN "pytest" ELSE "generate"
    /\ UNCHANGED <<run, results_exists, allure_results, report_exists,
                   allure_report, returncode, todo, total, passed, failed, cand,
                   allure_found, html, opened, error, exit_code>>
    /\ UNCHANGED <<child, environment_properties>>
    /\ UNCHANGED trendVars
    /\ UNCHANGED NotRun

\* line 211: the loop is over
EndAggregate ==
    /\ pc = "loop"
    /\ todo = {}
    /\ pc' = "generate"
    /\ UNCHANGED <<run, results_exists, allure_results, report_exists,
                   allure_report, returncode, todo, total, passed, failed, cand,
                   allure_found, html, opened, error, exit_code>>
    /\ UNCHANGED <<child, environment_properties>>
    /\ UNCHANGED trendVars
    /\ UNCHANGED NotRun

\* a mutant of TryAllure: after the last candidate the install is skipped
TryAllureSkipsInstall ==
    /\ pc = "generate"
    /\ \/ /\ allure_found' = TRUE
          /\ report_exists' = TRUE
          /\ allure_report' = AllureReport(run)
          /\ pc' = "widgets"
          /\ UNCHANGED cand
       \/ /\ cand' = cand + 1
          /\ pc' = IF cand = NumAllureCommands THEN "fallback" ELSE "generate"
          /\ UNCHANGED <<allure_found, report_exists, allure_report>>
    /\ UNCHANGED <<run, results_exists, allure_results, returncode, todo, total,
                   passed, failed, html, opened, error, exit_code>>
    /\ UNCHANGED <<child, environment_properties>>
    /\ UNCHANGED trendVars
    /\ UNCHANGED NotRun

\* lines 224-235, one candidate of allure_commands
TryAllure ==
    /\ pc = "generate"
    /\ \/ /\ allure_found' = TRUE
          /\ report_exists' = TRUE
          /\ allure_report' = AllureReport(run)
          /\ pc' = "widgets"
          /\ UNCHANGED cand
       \/ \* FileNotFoundError or CalledProcessError
          /\ cand' = cand + 1
          /\ pc' = IF cand = NumAllureCommands THEN "install" ELSE "generate"
          /\ UNCHANGED <<allure_found, report_exists, allure_report>>
    /\ UNCHANGED <<run, results_exists, allure_results, returncode, todo, total,
                   passed, failed, html, opened, error, exit_code>>
    /\ UNCHANGED <<child, environment_properties>>
    /\ UNCHANGED trendVars
    /\ UNCHANGED NotRun

\* lines 237-249: scoop install allure, then allure generate
InstallAllure ==
    /\ pc = "install"
    /\ \/ /\ allure_found' = TRUE
          /\ report_exists' = TRUE
          /\ allure_report' = AllureReport(run)
          /\ pc' = "widgets"
       \/ \* either command raised
          /\ pc' = "fallback"
          /\ UNCHANGED <<allure_found, report_exists, allure_report>>
    /\ UNCHANGED <<run, results_exists, allure_results, returncode, todo, total,
                   passed, failed, cand, html, opened, error, exit_code>>
    /\ UNCHANGED <<child, environment_properties>>
    /\ UNCHANGED trendVars
    /\ UNCHANGED NotRun

\* lines 250-252 and create_basic_html_report, lines 28-136, called in the
\* handler of line 248: nothing catches what it raises
BasicHtmlReport ==
    /\ pc = "fallback"
    /\ report_exists' = TRUE
    /\ IF total = 0
       THEN /\ Crash("ZeroDivisionError")
            /\ UNCHANGED <<allure_report, allure_found, html>>
       ELSE /\ html' = [written |-> TRUE,
                        total |-> total, passed |-> passed, failed |-> failed,
                        pass_rate |-> Tenths(passed, total),
                        bug_rate |-> Tenths(failed, total)]
            /\ allure_report' =
                  WriteFiles(allure_report, {File("index.html", 0, run, "basic")})
            /\ allure_found' = TRUE
            /\ pc' = "widgets"
            /\ UNCHANGED <<error, exit_code>>
    /\ UNCHANGED <<run, results_exists, allure_results, returncode, todo, total,
                   passed, failed, cand, opened>>
    /\ UNCHANGED <<child, environment_properties>>
    /\ UNCHANGED trendVars
    /\ UNCHANGED NotRun

\* step 5, lines 254-357: open(f"{ALLURE_REPORT_DIR}/widgets/...", "w")
WriteWidgets ==
    /\ pc = "widgets"
    /\ IF HasFile(allure_report, "widgets")
       THEN /\ allure_report' = WriteFiles(allure_report, WidgetFiles(run))
            /\ history_data' = history_data_of(failed, passed, total)
            /\ categories_trend_data' = categories_trend_data_of(failed)
            /\ retries_trend_data' = retries_trend_data_of(failed, total)
            /\ duration_trend_data' = duration_trend_data_of(failed)
            /\ pc' = "open"
            /\ UNCHANGED <<error, exit_code>>
       ELSE /\ Crash("FileNotFoundError")
            /\ UNCHANGED allure_report
            /\ UNCHANGED trendVars
    /\ UNCHANGED <<run, results_exists, allure_results, report_exists, returncode,
                   todo, total, passed, failed, cand, allure_found, html, opened>>
    /\ UNCHANGED <<child, environment_properties>>
    /\ UNCHANGED NotRun

\* step 6, lines 359-394
OpenReport ==
    /\ pc = "open"
    /\ IF allure_found /\ HasFile(allure_report, "index.html")
       THEN \E server_started \in BOOLEAN :
               opened' = IF server_started THEN "server" ELSE "local"
       ELSE opened' = "basic"
    /\ pc' = "finish"
    /\ UNCHANGED <<run, results_exists, allure_results, report_exists,
                   allure_report, returncode, todo, total, passed, failed, cand,
                   allure_found, html, error, exit_code>>
    /\ UNCHANGED <<child, environment_properties>>
    /\ UNCHANGED trendVars
    /\ UNCHANGED NotRun

\* lines 396-437: main returns and the process ends
Finish ==
    /\ pc = "finish"
    /\ pc' = "done"
    /\ exit_code' = 0
    /\ UNCHANGED <<run, results_exists, allure_results, report_exists,
                   allure_report, returncode, todo, total, passed, failed, cand,
                   allure_found, html, opened, error>>
    /\ UNCHANGED <<child, environment_properties>>
    /\ UNCHANGED trendVars
    /\ UNCHANGED NotRun

\* line 439: the script is run again, over the directories the last run left
Reinvoke ==
    /\ pc \in {"done", "crashed"}
    /\ run < MaxRuns
    /\ run' = run + 1
    /\ pc' = "start"
    /\ returncode' = Unset
    /\ todo' = {}
    /\ total' = 0 /\ passed' = 0 /\ failed' = 0
    /\ cand' = 1
    /\ allure_found' = FALSE
    /\ html' = NoHtml
    /\ opened' = Unset
    /\ error' = "none"
    /\ exit_code' = Unset
    /\ UNCHANGED <<results_exists, allure_results, report_exists, allure_report>>
    /\ UNCHANGED <<child, environment_properties>>
    /\ history_data' = <<>>
    /\ categories_trend_data' = <<>>
    /\ retries_trend_data' = <<>>
    /\ duration_trend_data' = <<>>
    /\ UNCHANGED NotRun

RunNext ==
    \/ Clean
    \/ WriteConfig
    \/ StartPytest
    \/ RunPytest
    \/ StartAggregate
    \/ AggregateFile
    \/ EndAggregate
    \/ TryAllure
    \/ InstallAllure
    \/ BasicHtmlReport
    \/ WriteWidgets
    \/ OpenReport
    \/ Finish
    \/ Reinvoke

-----------------------------------------------------------------------------
(* final_qa_validation.py: the state of QAPipelineValidator and of main    *)


MaxJson == 2

\* the validations of generate_validation_report, in list order
ValidationNames == <<"test_collection", "allure_integration", "regression_suite",
                     "bug_discovery", "complete_pipeline">>

\* test_types of validate_test_collection, in dict order
TestTypes == <<"unit", "integration", "end_to_end", "performance", "regression",
               "bug_discovery">>

\* test_commands of validate_allure_integration, in list order
AllureTypes == <<"regression", "unit", "integration">>

IndexOf(seq, x) == CHOOSE i \in 1..Len(seq) : seq[i] = x

Passed == <<"P", "A", "S", "S", "E", "D">>
Failed == <<"F", "A", "I", "L", "E", "D">>

\* what a verbose test run prints
RunAllPassed == <<"c", "o", "l", "l", "e", "c", "t", "e", "d", " ", "1", " ", "i", "t", "e", "m", "\n", "\n", "u", "n", "i", "t", "/", "t", "e", "s", "t", "_", "a", ".", "p", "y", ":", ":", "t", "e", "s", "t", "_", "b", " ", "P", "A", "S", "S", "E", "D", "\n", "\n", "=", "=", " ", "1", " ", "p", "a", "s", "s", "e", "d", " ", "i", "n", " ", "0", ".", "1", "2", "s", " ", "=", "=", "\n">>
RunOneFailed == <<"c", "o", "l", "l", "e", "c", "t", "e", "d", " ", "2", " ", "i", "t", "e", "m", "s", "\n", "\n", "u", "n", "i", "t", "/", "t", "e", "s", "t", "_", "a", ".", "p", "y", ":", ":", "t", "e", "s", "t", "_", "b", " ", "P", "A", "S", "S", "E", "D", "\n", "u", "n", "i", "t", "/", "t", "e", "s", "t", "_", "a", ".", "p", "y", ":", ":", "t", "e", "s", "t", "_", "c", " ", "F", "A", "I", "L", "E", "D", "\n", "\n", "=", "=", " ", "1", " ", "f", "a", "i", "l", "e", "d", ",", " ", "1", " ", "p", "a", "s", "s", "e", "d", " ", "i", "n", " ", "0", ".", "1", "2", "s", " ", "=", "=", "\n">>
RunNoTests == <<"c", "o", "l", "l", "e", "c", "t", "e", "d", " ", "0", " ", "i", "t", "e", "m", "s", "\n", "\n", "=", "=", " ", "n", "o", " ", "t", "e", "s", "t", "s", " ", "r", "a", "n", " ", "i", "n", " ", "0", ".", "1", "2", "s", " ", "=", "=", "\n">>

\* what the collect-only commands can print, and the test runs
CollectOutputs ==
    {Stdout("plain", 0, 2, 1), Stdout("fraction", 1, 2, 1),
     Stdout("nocollected", 0, 0, 0)}
RunOutputs == {RunAllPassed, RunOneFailed, RunNoTests, <<>>}

\* how a command of the validator can end: it ran to an exit code and printed
\* out, it had printed out when it was killed after the timeout, or it could
\* not be started
Outcomes(outputs) ==
    {[kind |-> "completed", rc |-> rc, out |-> o, err |-> NoText] :
        rc \in {0, 1}, o \in outputs}
    \cup {[kind |-> "timeout", rc |-> 0, out |-> o, err |-> NoText] : o \in outputs}
    \cup {[kind |-> "oserror", rc |-> 0, out |-> NoText, err |-> NoSuchFileText]}

\* len([line for line in stdout.split('\n') if word in line])
CountLines(stdout, word) ==
    LET lines == SplitOn(stdout, Newline)
    IN Cardinality({i \in 1..Len(lines) : Contains(lines[i], word)})

RECURSIVE SumSeq(_)
SumSeq(s) == IF s = <<>> THEN 0 ELSE s[1] + SumSeq(Tail(s))

\* self.validation_results with no details.  The details of a validation are
\* held while it runs; once generate_validation_report has copied them into
\* the report (line 321) nothing reads them, and the model lets them go
NoDetails ==
    [test_collection |-> <<>>, allure_integration |-> <<>>,
     regression_suite |-> Unset, bug_discovery |-> Unset,
     complete_pipeline |-> Unset]

ValInit ==
    /\ vpc = "start"
    /\ vi = 1
    /\ ci = 1
    /\ v_exists \in BOOLEAN
    /\ v_json \in (IF v_exists THEN 0..1 ELSE {0})
    /\ validation_results = NoDetails
    /\ ret = Unset
    /\ validations = <<>>
    /\ all_passed = TRUE
    /\ passed_count = 0
    /\ failed_count = 0
    /\ overall_success = Unset
    /\ v_exit = Unset
    /\ v_child = FALSE
    /\ v_log = <<>>

-----------------------------------------------------------------------------
(* final_qa_validation.py: the validations, step by step *)

\* where the validator is about to call run_pytest_command
CommandSteps == {"collect", "allure_cmd", "regression", "bug_discovery", "pipeline"}

\* line 50: subprocess.run starts the command and waits, for 300 s at most
StartCommand ==
    /\ vpc \in CommandSteps
    /\ ~v_child
    /\ v_child' = TRUE
    /\ UNCHANGED <<vpc, vi, ci, v_exists, v_json, validation_results, ret,
                   validations, all_passed, passed_count, failed_count,
                   overall_success, v_exit, v_log>>
    /\ UNCHANGED NotVal

\* what a command run with --alluredir=allure-results can leave in the
\* directory: <<exists, number of JSON files>>.  A command that could not be
\* started leaves it as it was; one that ran, to its end or to the timeout,
\* may have created it and written result files
DirAfter(outcome) ==
    IF outcome.kind = "oserror" THEN {<<v_exists, v_json>>}
    ELSE {<<v_exists \/ mk \/ d > 0, v_json + d>> :
             mk \in BOOLEAN, d \in 0..(MaxJson - v_json)}

\* the validation that follows validation i in the list; "save" after the last
StepOf(i) ==
    CASE i = 1 -> "collect"
      [] i = 2 -> "allure_clear"
      [] i = 3 -> "regression"
      [] i = 4 -> "bug_discovery"
      [] i = 5 -> "pipeline"
      [] OTHER -> "save"

\* lines 292-317: the loop over validations starts
BeginReport ==
    /\ vpc = "start"
    /\ all_passed' = TRUE
    /\ passed_count' = 0
    /\ failed_count' = 0
    /\ vi' = 1
    /\ ci' = 1
    /\ vpc' = StepOf(1)
    /\ UNCHANGED <<v_exists, v_json, validation_results, ret, validations,
                   overall_success, v_exit>>
    /\ UNCHANGED <<v_child, v_log>>
    /\ UNCHANGED NotVal

\* validate_test_collection, lines 78-108: the command of one test type has
\* ended, and its count is recorded
CollectCommand ==
    /\ vpc = "collect"
    /\ v_child
    /\ \E o \in Outcomes(CollectOutputs) :
          LET r == run_pytest_command(o)
          IN /\ validation_results' =
                   [validation_results EXCEPT !.test_collection =
                       Append(@, CollectCount(r.success, r.stdout))]
             /\ v_log' = Append(v_log,
                                [success |-> r.success,
                                 parsed |-> r.success /\ ParseCount(r.stdout).ok])
    /\ v_child' = FALSE
    /\ IF ci = Len(TestTypes)
       THEN vpc' = "collect_end" /\ ci' = 1
       ELSE vpc' = "collect" /\ ci' = ci + 1
    /\ UNCHANGED <<vi, v_exists, v_json, ret, validations, all_passed,
                   passed_count, failed_count, overall_success, v_exit>>
    /\ UNCHANGED NotVal

\* a mutant of CollectEnd: every test type must have been collected
CollectEndEveryType ==
    /\ vpc = "collect_end"
    /\ ret' = \A i \in 1..Len(TestTypes) : validation_results.test_collection[i] > 0
    /\ vpc' = "returned"
    /\ UNCHANGED <<vi, ci, v_exists, v_json, validation_results, validations,
                   all_passed, passed_count, failed_count, overall_success, v_exit>>
    /\ UNCHANGED <<v_child, v_log>>
    /\ UNCHANGED NotVal

\* validate_test_collection, lines 110-119
CollectEnd ==
    /\ vpc = "collect_end"
    /\ LET regression_count ==
              validation_results.test_collection[IndexOf(TestTypes, "regression")]
       IN ret' = (regression_count > 0)
    /\ vpc' = "returned"
    /\ UNCHANGED <<vi, ci, v_exists, v_json, validation_results, validations,
                   all_passed, passed_count, failed_count, overall_success, v_exit>>
    /\ UNCHANGED <<v_child, v_log>>
    /\ UNCHANGED NotVal

\* validate_allure_integration, lines 125-128: rmtree removes the directory,
\* or raises, and the exception leaves the validation
AllureClear ==
    /\ vpc = "allure_clear"
    /\ \/ /\ v_exists' = FALSE
          /\ v_json' = 0
          /\ vpc' = "allure_cmd"
       \/ /\ v_exists
          /\ vpc' = "raised"
          /\ UNCHANGED <<v_exists, v_json>>
    /\ ci' = 1
    /\ UNCHANGED <<vi, validation_results, ret, validations, all_passed,
                   passed_count, failed_count, overall_success, v_exit>>
    /\ UNCHANGED <<v_child, v_log>>
    /\ UNCHANGED NotVal

\* a mutant of AllureCommand: the directory is cleared before every command
AllureCommandClearsFirst ==
    /\ vpc = "allure_cmd"
    /\ v_child
    /\ \E o \in Outcomes(RunOutputs) : \E mk \in BOOLEAN, d \in 0..MaxJson :
          LET r == run_pytest_command(o)
              dir == IF o.kind = "oserror" THEN <<FALSE, 0>> ELSE <<mk \/ d > 0, d>>
              result_files == IF dir[1] THEN dir[2] ELSE 0
          IN /\ v_exists' = dir[1]
             /\ v_json' = dir[2]
             /\ validation_results' =
                   [validation_results EXCEPT !.allure_integration =
                       Append(@, [command_success |-> r.success,
                                  result_files |-> result_files,
                                  has_results |-> result_files > 0])]
             /\ v_log' = Append(v_log, [kind |-> o.kind, before |-> 0,
                                        wrote |-> dir[2]])
    /\ v_child' = FALSE
    /\ IF ci = Len(AllureTypes)
       THEN vpc' = "allure_end" /\ ci' = 1
       ELSE vpc' = "allure_cmd" /\ ci' = ci + 1
    /\ UNCHANGED <<vi, ret, validations, all_passed, passed_count, failed_count,
                   overall_success, v_exit>>
    /\ UNCHANGED NotVal

\* validate_allure_integration, lines 139-157: one command has ended, then
\* the count of the JSON files of the directory
AllureCommand ==
    /\ vpc = "allure_cmd"
    /\ v_child
    /\ \E o \in Outcomes(RunOutputs) : \E dir \in DirAfter(o) :
          LET r == run_pytest_command(o)
              result_files == IF dir[1] THEN dir[2] ELSE 0
          IN /\ v_exists' = dir[1]
             /\ v_json' = dir[2]
             /\ validation_results' =
                   [validation_results EXCEPT !.allure_integration =
                       Append(@, [command_success |-> r.success,
                                  result_files |-> result_files,
                                  has_results |-> result_files > 0])]
             /\ v_log' = Append(v_log, [kind |-> o.kind, before |-> v_json,
                                        wrote |-> dir[2] - v_json])
    /\ v_child' = FALSE
    /\ IF ci = Len(AllureTypes)
       THEN vpc' = "allure_end" /\ ci' = 1
       ELSE vpc' = "allure_cmd" /\ ci' = ci + 1
    /\ UNCHANGED <<vi, ret, validations, all_passed, passed_count, failed_count,
                   overall_success, v_exit>>
    /\ UNCHANGED NotVal

\* validate_allure_integration, lines 159-168
AllureEnd ==
    /\ vpc = "allure_end"
    /\ LET recorded == validation_results.allure_integration
           total_files == SumSeq([i \in 1..Len(recorded) |-> recorded[i].result_files])
       IN ret' = (total_files > 0)
    /\ vpc' = "returned"
    /\ UNCHANGED <<vi, ci, v_exists, v_json, validation_results, validations,
                   all_passed, passed_count, failed_count, overall_success, v_exit>>
    /\ UNCHANGED <<v_child, v_log>>
    /\ UNCHANGED NotVal

\* a mutant of RegressionSuite: True only when the command exited 0
RegressionSuiteNeedsSuccess ==
    /\ vpc = "regression"
    /\ v_child
    /\ \E o \in Outcomes(RunOutputs) : \E dir \in DirAfter(o) :
          LET r == run_pytest_command(o)
          IN /\ v_exists' = dir[1]
             /\ v_json' = dir[2]
             /\ v_log' = <<o>>
             /\ validation_results' =
                   [validation_results EXCEPT !.regression_suite =
                       [execution_success |-> r.success,
                        passed_count |-> IF r.success
                                         THEN CountLines(r.stdout, Passed) ELSE 0,
                        failed_count |-> IF r.success
                                         THEN CountLines(r.stdout, Failed) ELSE 0]]
             /\ ret' = r.success
    /\ vpc' = "returned"
    /\ UNCHANGED <<vi, ci, validations, all_passed, passed_count, failed_count,
                   overall_success, v_exit>>
    /\ v_child' = FALSE
    /\ UNCHANGED NotVal

\* validate_regression_suite, lines 170-219
RegressionSuite ==
    /\ vpc = "regression"
    /\ v_child
    /\ \E o \in Outcomes(RunOutputs) : \E dir \in DirAfter(o) :
          LET r == run_pytest_command(o)
          IN /\ v_exists' = dir[1]
             /\ v_json' = dir[2]
             /\ v_log' = <<o>>
             /\ validation_results' =
                   [validation_results EXCEPT !.regression_suite =
                       [execution_success |-> r.success,
                        passed_count |-> IF r.success
                                         THEN CountLines(r.stdout, Passed) ELSE 0,
                        failed_count |-> IF r.success
                                         THEN CountLines(r.stdout, Failed) ELSE 0]]
             /\ ret' = (r.success \/ Contains(r.stdout, Collected))
    /\ vpc' = "returned"
    /\ UNCHANGED <<vi, ci, validations, all_passed, passed_count, failed_count,
                   overall_success, v_exit>>
    /\ v_child' = FALSE
    /\ UNCHANGED NotVal

\* a mutant of BugDiscovery: True only when the command exited 0 as well
BugDiscoveryNeedsSuccess ==
    /\ vpc = "bug_discovery"
    /\ v_child
    /\ \E o \in Outcomes(RunOutputs) : \E dir \in DirAfter(o) :
          LET r == run_pytest_command(o)
              tests_found == r.success /\ Contains(r.stdout, Collected)
          IN /\ v_exists' = dir[1]
             /\ v_json' = dir[2]
             /\ v_log' = <<o>>
             /\ validation_results' =
                   [validation_results EXCEPT !.bug_discovery =
                       [execution_success |-> r.success,
                        tests_found |-> tests_found]]
             /\ ret' = tests_found
    /\ vpc' = "returned"
    /\ UNCHANGED <<vi, ci, validations, all_passed, passed_count, failed_count,
                   overall_success, v_exit>>
    /\ v_child' = FALSE
    /\ UNCHANGED NotVal

\* validate_bug_discovery, lines 221-254
BugDiscovery ==
    /\ vpc = "bug_discovery"
    /\ v_child
    /\ \E o \in Outcomes(RunOutputs) : \E dir \in DirAfter(o) :
          LET r == run_pytest_command(o)
              tests_found ==
                 IF Contains(r.stdout, Collected)
                 THEN CountLines(r.stdout, Collected) > 0
                 ELSE FALSE
          IN /\ v_exists' = dir[1]
             /\ v_json' = dir[2]
             /\ v_log' = <<o>>
             /\ validation_results' =
                   [validation_results EXCEPT !.bug_discovery =
                       [execution_success |-> r.success,
                        tests_found |-> tests_found]]
             /\ ret' = tests_found
    /\ vpc' = "returned"
    /\ UNCHANGED <<vi, ci, validations, all_passed, passed_count, failed_count,
                   overall_success, v_exit>>
    /\ v_child' = FALSE
    /\ UNCHANGED NotVal

\* validate_complete_pipeline, lines 256-290
CompletePipeline ==
    /\ vpc = "pipeline"
    /\ v_child
    /\ \E o \in Outcomes(RunOutputs) : \E dir \in DirAfter(o) :
          LET r == run_pytest_command(o)
          IN /\ v_exists' = dir[1]
             /\ v_json' = dir[2]
             /\ v_log' = <<o>>
             /\ validation_results' =
                   [validation_results EXCEPT !.complete_pipeline =
                       [execution_success |-> r.success]]
             /\ ret' = Contains(r.stdout, Collected)
    /\ vpc' = "returned"
    /\ UNCHANGED <<vi, ci, validations, all_passed, passed_count, failed_count,
                   overall_success, v_exit>>
    /\ v_child' = FALSE
    /\ UNCHANGED NotVal

-----------------------------------------------------------------------------
(* generate_validation_report and main *)

\* a mutant of AllPassedAfterError: a raising validation leaves all_passed
AllPassedAfterErrorKeeps(flag) == flag

\* line 337
AllPassedAfterError(flag) == FALSE

\* line 383: 0 if results["overall_success"] else 1
ExitStatus(success) == IF success THEN 0 ELSE 1

\* lines 318-329: the validation returned
RecordReturned ==
    /\ vpc = "returned"
    /\ validations' = Append(validations,
                             [name |-> ValidationNames[vi], passed |-> ret,
                              error |-> FALSE])
    /\ IF ~ret
       THEN /\ all_passed' = FALSE
            /\ failed_count' = failed_count + 1
            /\ UNCHANGED passed_count
       ELSE /\ passed_count' = passed_count + 1
            /\ UNCHANGED <<all_passed, failed_count>>
    /\ ret' = Unset
    /\ validation_results' = NoDetails
    /\ vi' = vi + 1
    /\ vpc' = StepOf(vi + 1)
    /\ UNCHANGED <<ci, v_exists, v_json, overall_success, v_exit>>
    /\ v_log' = <<>>
    /\ UNCHANGED v_child
    /\ UNCHANGED NotVal

\* a mutant of RecordRaised: the loop over the validations ends with the
\* first that raises
RecordRaisedAborts ==
    /\ vpc = "raised"
    /\ validations' = Append(validations,
                             [name |-> ValidationNames[vi], passed |-> FALSE,
                              error |-> TRUE])
    /\ all_passed' = AllPassedAfterError(all_passed)
    /\ ret' = Unset
    /\ validation_results' = NoDetails
    /\ vi' = Len(ValidationNames) + 1
    /\ vpc' = StepOf(Len(ValidationNames) + 1)
    /\ UNCHANGED <<ci, v_exists, v_json, passed_count, failed_count,
                   overall_success, v_exit>>
    /\ v_log' = <<>>
    /\ UNCHANGED v_child
    /\ UNCHANGED NotVal

\* lines 330-337: the validation raised
RecordRaised ==
    /\ vpc = "raised"
    /\ validations' = Append(validations,
                             [name |-> ValidationNames[vi], passed |-> FALSE,
                              error |-> TRUE])
    /\ all_passed' = AllPassedAfterError(all_passed)
    /\ ret' = Unset
    /\ validation_results' = NoDetails
    /\ vi' = vi + 1
    /\ vpc' = StepOf(vi + 1)
    /\ UNCHANGED <<ci, v_exists, v_json, passed_count, failed_count,
                   overall_success, v_exit>>
    /\ v_log' = <<>>
    /\ UNCHANGED v_child
    /\ UNCHANGED NotVal

\* lines 339-354: the report is saved and returned
SaveReport ==
    /\ vpc = "save"
    /\ overall_success' = all_passed
    /\ vpc' = "summary"
    /\ UNCHANGED <<vi, ci, v_exists, v_json, validation_results, ret, validations,
                   all_passed, passed_count, failed_count, v_exit>>
    /\ UNCHANGED <<v_child, v_log>>
    /\ UNCHANGED NotVal

\* main, lines 368-383
Exit ==
    /\ vpc = "summary"
    /\ v_exit' = ExitStatus(overall_success)
    /\ vpc' = "exited"
    /\ UNCHANGED <<vi, ci, v_exists, v_json, validation_results, ret, validations,
                   all_passed, passed_count, failed_count, overall_success>>
    /\ UNCHANGED <<v_child, v_log>>
    /\ UNCHANGED NotVal

ValNext ==
    \/ BeginReport
    \/ StartCommand
    \/ CollectCommand
    \/ CollectEnd
    \/ AllureClear
    \/ AllureCommand
    \/ AllureEnd
    \/ RegressionSuite
    \/ BugDiscovery
    \/ CompletePipeline
    \/ RecordReturned
    \/ RecordRaised
    \/ SaveReport
    \/ Exit

-----------------------------------------------------------------------------
(* integration/test_pipeline_integration.py: test_concurrent_processing_bug *)

\* range(5), line 98
NumWorkers == 5

Workers == 1..NumWorkers

WrkInit ==
    /\ t_pc = "spawn"
    /\ started = 0
    /\ joined = 0
    /\ w_pc = [w \in Workers |-> "new"]
    /\ global_counter = [w \in Workers |-> 0]
    /\ has_counter = FALSE
    /\ counter = 0
    /\ results = <<>>

\* lines 98-101: the next thread is created and started
StartThread ==
    /\ t_pc = "spawn"
    /\ started' = started + 1
    /\ w_pc' = [w_pc EXCEPT ![started + 1] = "read"]
    /\ t_pc' = IF started + 1 = NumWorkers THEN "join" ELSE "spawn"
    /\ UNCHANGED <<joined, global_counter, has_counter, counter, results>>
    /\ UNCHANGED NotWrk

\* lines 90-92: getattr(self, '_counter', 0), the increment of the local, and
\* the sleep
ReadCounter(w) ==
    /\ w_pc[w] = "read"
    /\ global_counter' =
          [global_counter EXCEPT ![w] = (IF has_counter THEN counter ELSE 0) + 1]
    /\ w_pc' = [w_pc EXCEPT ![w] = "append"]
    /\ UNCHANGED <<t_pc, started, joined, has_counter, counter, results>>
    /\ UNCHANGED NotWrk

\* line 93
AppendResult(w) ==
    /\ w_pc[w] = "append"
    /\ results' = Append(results, global_counter[w])
    /\ w_pc' = [w_pc EXCEPT ![w] = "write"]
    /\ UNCHANGED <<t_pc, started, joined, global_counter, has_counter, counter>>
    /\ UNCHANGED NotWrk

\* line 94
WriteCounter(w) ==
    /\ w_pc[w] = "write"
    /\ counter' = global_counter[w]
    /\ has_counter' = TRUE
    /\ w_pc' = [w_pc EXCEPT ![w] = "done"]
    /\ UNCHANGED <<t_pc, started, joined, global_counter, results>>
    /\ UNCHANGED NotWrk

\* lines 103-104: the next thread has ended and is joined
JoinThread ==
    /\ t_pc = "join"
    /\ w_pc[joined + 1] = "done"
    /\ joined' = joined + 1
    /\ t_pc' = IF joined + 1 = NumWorkers THEN "assert" ELSE "join"
    /\ UNCHANGED <<started, w_pc, global_counter, has_counter, counter, results>>
    /\ UNCHANGED NotWrk

\* set(results)
SetOf(seq) == {seq[i] : i \in 1..Len(seq)}

\* line 107
AssertDistinct ==
    /\ t_pc = "assert"
    /\ t_pc' = IF Cardinality(SetOf(results)) = Len(results)
               THEN "passed" ELSE "failed"
    /\ UNCHANGED <<started, joined, w_pc, global_counter, has_counter, counter,
                   results>>
    /\ UNCHANGED NotWrk

WrkNext ==
    \/ StartThread
    \/ \E w \in Workers : ReadCounter(w)
    \/ \E w \in Workers : AppendResult(w)
    \/ \E w \in Workers : WriteCounter(w)
    \/ JoinThread
    \/ AssertDistinct

-----------------------------------------------------------------------------
(* end_to_end/test_video_pipeline_e2e.py: test_pipeline_failure_recovery   *)

MaxEffects == 3

\* line 187
max_attempts == 3

NoResult == "None"

\* what a call of unstable_processor.process can do: raise one of the two
\* exceptions of lines 178-179, or return the value of line 180
Raises == {"Processing failed", "Still failing"}
Effects == Raises \cup {"success_result"}

\* the lists of side effects of at most n entries
RECURSIVE EffectLists(_)
EffectLists(n) ==
    IF n = 0 THEN {<<>>}
    ELSE LET shorter == EffectLists(n - 1)
         IN shorter \cup {Append(l, e) : l \in {k \in shorter : Len(k) = n - 1},
                                         e \in Effects}

RecInit ==
    /\ rec_pc = "while"
    /\ side_effect \in EffectLists(MaxEffects)
    /\ attempts = 0
    /\ result = NoResult
    /\ primary_calls = 0
    /\ handle_calls = 0
    /\ backup_calls = 0
    /\ failures = 0
    /\ verified = Unset

\* line 190
LoopTest ==
    /\ rec_pc = "while"
    /\ rec_pc' = IF attempts < max_attempts THEN "try" ELSE "verify"
    /\ UNCHANGED <<side_effect, attempts, result, primary_calls, handle_calls,
                   backup_calls, failures, verified>>
    /\ UNCHANGED NotRec

\* lines 191-194: the call of the primary.  A mock whose list of side effects
\* is used up raises StopIteration, which except Exception catches
CallPrimary ==
    /\ rec_pc = "try"
    /\ primary_calls' = primary_calls + 1
    /\ IF side_effect # <<>> /\ Head(side_effect) \notin Raises
       THEN /\ result' = Head(side_effect)
            /\ rec_pc' = "verify"
            /\ UNCHANGED failures
       ELSE /\ failures' = failures + 1
            /\ rec_pc' = "except"
            /\ UNCHANGED result
    /\ side_effect' = IF side_effect = <<>> THEN <<>> ELSE Tail(side_effect)
    /\ UNCHANGED <<attempts, handle_calls, backup_calls, verified>>
    /\ UNCHANGED NotRec

\* a mutant of HandleFailure: the backup is never tried
HandleFailureNoBackup ==
    /\ rec_pc = "except"
    /\ attempts' = attempts + 1
    /\ handle_calls' = handle_calls + 1
    /\ rec_pc' = "while"
    /\ UNCHANGED <<side_effect, result, primary_calls, backup_calls, failures,
                   verified>>
    /\ UNCHANGED NotRec

\* a mutant of HandleFailure: the backup is called after every failure
HandleFailureBackupEachTime ==
    /\ rec_pc = "except"
    /\ attempts' = attempts + 1
    /\ handle_calls' = handle_calls + 1
    /\ rec_pc' = "backup"
    /\ UNCHANGED <<side_effect, result, primary_calls, backup_calls, failures,
                   verified>>
    /\ UNCHANGED NotRec

\* lines 195-197
HandleFailure ==
    /\ rec_pc = "except"
    /\ attempts' = attempts + 1
    /\ handle_calls' = handle_calls + 1
    /\ rec_pc' = IF attempts + 1 = max_attempts THEN "backup" ELSE "while"
    /\ UNCHANGED <<side_effect, result, primary_calls, backup_calls, failures,
                   verified>>
    /\ UNCHANGED NotRec

\* line 198
CallBackup ==
    /\ rec_pc = "backup"
    /\ result' = "backup_success"
    /\ backup_calls' = backup_calls + 1
    /\ rec_pc' = "while"
    /\ UNCHANGED <<side_effect, attempts, primary_calls, handle_calls, failures,
                   verified>>
    /\ UNCHANGED NotRec

\* lines 201-202
Verify ==
    /\ rec_pc = "verify"
    /\ verified' = (result \in {"success_result", "backup_success"}
                       /\ handle_calls >= 1)
    /\ rec_pc' = "done"
    /\ UNCHANGED <<side_effect, attempts, result, primary_calls, handle_calls,
                   backup_calls, failures>>
    /\ UNCHANGED NotRec

RecNext ==
    \/ LoopTest
    \/ CallPrimary
    \/ HandleFailure
    \/ CallBackup
    \/ Verify

-----------------------------------------------------------------------------
(* run_qa_pipeline.py: find_available_port                                 *)

\* lines 16 and 145: the default of the parameter, and the argument of main
DefaultStartPort == 64678

\* line 19: range(start_port, start_port + 100)
PortRange == 100

PortInit ==
    /\ fp_pc = "for"
    /\ start_port = DefaultStartPort
    /\ port = start_port
    /\ bind_raised = {}
    /\ bound = FALSE
    /\ fp_result = Unset

\* a mutant of FallbackPort: the port after the range
FallbackPortPastRange(start) == start + PortRange

\* line 26
FallbackPort(start) == start

\* lines 19-25: one pass of the loop.  The socket is made and bound, and port
\* is returned; or either raises OSError and the loop goes on
TryPort ==
    /\ fp_pc = "for"
    /\ port < start_port + PortRange
    /\ \/ /\ bound' = TRUE
          /\ fp_result' = port
          /\ fp_pc' = "returned"
          /\ UNCHANGED <<port, bind_raised>>
       \/ /\ bind_raised' = bind_raised \cup {port}
          /\ port' = port + 1
          /\ UNCHANGED <<fp_pc, bound, fp_result>>
    /\ UNCHANGED start_port
    /\ UNCHANGED NotPort

\* line 26: the range is used up
ReturnFallback ==
    /\ fp_pc = "for"
    /\ port = start_port + PortRange
    /\ fp_result' = FallbackPort(start_port)
    /\ fp_pc' = "returned"
    /\ UNCHANGED <<start_port, port, bind_raised, bound>>
    /\ UNCHANGED NotPort

PortNext ==
    \/ TryPort
    \/ ReturnFallback

-----------------------------------------------------------------------------
(* The specifications.  Each runs one script; the state of the others stays *)
(* as it starts.                                                            *)


SumIdle ==
    /\ sum_pc = "idle"
    /\ in_kind = "completed" /\ in_rc = 0 /\ in_err = NoText
    /\ in_shape = "empty" /\ in_M = 0 /\ in_N = 0 /\ in_ids = 0
    /\ cmd_success = Unset /\ cmd_stdout = Unset /\ cmd_stderr = Unset
    /\ count = Unset

RunIdle ==
    /\ pc = "idle" /\ run = 0
    /\ results_exists = FALSE /\ allure_results = {}
    /\ report_exists = FALSE /\ allure_report = {}
    /\ environment_properties = NoText
    /\ RunLocalsInit

ValIdle ==
    /\ vpc = "idle" /\ vi = 0 /\ ci = 0
    /\ v_child = FALSE /\ v_log = <<>>
    /\ v_exists = FALSE /\ v_json = 0
    /\ validation_results = NoDetails /\ ret = Unset /\ validations = <<>>
    /\ all_passed = TRUE /\ passed_count = 0 /\ failed_count = 0
    /\ overall_success = Unset /\ v_exit = Unset

WrkIdle ==
    /\ t_pc = "idle" /\ started = 0 /\ joined = 0
    /\ w_pc = [w \in Workers |-> "new"]
    /\ global_counter = [w \in Workers |-> 0]
    /\ has_counter = FALSE /\ counter = 0 /\ results = <<>>

RecIdle ==
    /\ rec_pc = "idle" /\ side_effect = <<>> /\ attempts = 0
    /\ result = NoResult /\ primary_calls = 0 /\ handle_calls = 0
    /\ backup_calls = 0 /\ failures = 0 /\ verified = Unset

PortIdle ==
    /\ fp_pc = "idle" /\ start_port = DefaultStartPort /\ port = start_port
    /\ bind_raised = {} /\ bound = FALSE /\ fp_result = Unset

InitSummarize == SumInit /\ RunIdle /\ ValIdle /\ WrkIdle /\ RecIdle /\ PortIdle
SpecSummarize == InitSummarize /\ [][SumNext]_vars

InitRunner == RunInit /\ SumIdle /\ ValIdle /\ WrkIdle /\ RecIdle /\ PortIdle
SpecRunner == InitRunner /\ [][RunNext]_vars

InitValidator == ValInit /\ SumIdle /\ RunIdle /\ WrkIdle /\ RecIdle /\ PortIdle
SpecValidator == InitValidator /\ [][ValNext]_vars

InitWorkers == WrkInit /\ SumIdle /\ RunIdle /\ ValIdle /\ RecIdle /\ PortIdle
SpecWorkers == InitWorkers /\ [][WrkNext]_vars

\* the test is one thread of control that runs on until it ends
InitRecovery == RecInit /\ SumIdle /\ RunIdle /\ ValIdle /\ WrkIdle /\ PortIdle
SpecRecovery == InitRecovery /\ [][RecNext]_vars /\ WF_vars(RecNext)

InitPort == PortInit /\ SumIdle /\ RunIdle /\ ValIdle /\ WrkIdle /\ RecIdle
SpecPort == InitPort /\ [][PortNext]_vars

-----------------------------------------------------------------------------
(* Claims about the count parsing (SpecSummarize) *)

\* C1: when the command succeeded and the summary line of its output starts
\* with "N tests collected", the recorded count is N; when it starts with
\* "M/N tests collected", the recorded count is the denominator N
C1_CountIsDenominator ==
    (sum_pc = "done" /\ cmd_success /\ in_shape \in {"plain", "fraction"})
        => count = in_N

\* C11: run_pytest_command returns for every way the command can end: killed
\* after the timeout it returns (False, "", "Command timed out"); not started
\* it returns (False, "", the text of the error); run to its end it returns
\* success True exactly when the exit code is 0, with what the command wrote
C11_CommandOutcomes ==
    sum_pc = "done" =>
        /\ in_kind = "timeout" =>
              /\ cmd_success = FALSE
              /\ cmd_stdout = NoText
              /\ cmd_stderr = TimedOutText
        /\ in_kind = "oserror" =>
              /\ cmd_success = FALSE
              /\ cmd_stdout = NoText
              /\ cmd_stderr = in_err
        /\ in_kind = "completed" =>
              /\ cmd_success = (in_rc = 0)
              /\ cmd_stdout = InOutcome.out
              /\ cmd_stderr = in_err

\* a command killed after the timeout had printed its summary line and
\* written to stderr: nothing of either is returned
C11_Witness ==
    /\ sum_pc = "done" /\ in_kind = "timeout"
    /\ in_shape = "plain" /\ in_N > 0 /\ in_err = UsageErrorText
    /\ cmd_success = FALSE /\ cmd_stdout = NoText /\ cmd_stderr = TimedOutText
    /\ count = 0 - 1

\* a two-digit denominator that differs from the numerator, after node-id lines
C1_Witness ==
    /\ sum_pc = "done" /\ cmd_success
    /\ in_shape = "fraction" /\ in_M # in_N /\ in_N >= 10 /\ in_ids > 0
    /\ count = in_N

\* C2: when the command succeeded and its output holds no parsable count
\* token, the count is not recorded as 0
C2_NoTokenNeverZero ==
    (sum_pc = "done" /\ cmd_success /\ in_shape \in NoTokenShapes) => count # 0

-----------------------------------------------------------------------------
(* Claims about run_qa_pipeline.main (SpecRunner) *)

\* the *-result.json files of the results directory, and the well-formed ones
ResultFiles == {f \in allure_results : f.suffix = "-result.json"}
WellFormedFiles == {f \in ResultFiles : f.content \in Statuses}
WithStatus(files, statuses) == {f \in files : f.content \in statuses}

\* the loop over the result files is over
LoopOver ==
    \/ pc = "loop" /\ todo = {}
    \/ pc \in {"generate", "install", "fallback", "widgets", "open", "finish",
               "done", "crashed"}

\* C3: over a directory of well-formed result files only, total is the
\* number of files, passed the number with status passed, failed the number
\* with status failed or broken, and passed + failed + others = total
C3_CountsPartitionFiles ==
    (LoopOver /\ WellFormedFiles = ResultFiles) =>
        /\ total = Cardinality(ResultFiles)
        /\ passed = Cardinality(WithStatus(ResultFiles, {"passed"}))
        /\ failed = Cardinality(WithStatus(ResultFiles, {"failed", "broken"}))
        /\ passed + failed
              + Cardinality(WithStatus(ResultFiles, Statuses \ {"passed", "failed", "broken"}))
              = total
        /\ passed + failed <= total

\* a passed, a broken and a skipped result have been counted
C3_Witness ==
    /\ pc = "generate"
    /\ WellFormedFiles = ResultFiles
    /\ WithStatus(ResultFiles, {"passed"}) # {}
    /\ WithStatus(ResultFiles, {"broken"}) # {}
    /\ WithStatus(ResultFiles, {"skipped"}) # {}
    /\ total = 3 /\ passed = 1 /\ failed = 1

\* C4: after the loop the counts are those over the well-formed files alone,
\* whatever malformed or unreadable files lie beside them
C4_BadFilesSkipped ==
    LoopOver =>
        /\ total = Cardinality(WellFormedFiles)
        /\ passed = Cardinality(WithStatus(WellFormedFiles, {"passed"}))
        /\ failed = Cardinality(WithStatus(WellFormedFiles, {"failed", "broken"}))

\* C5: with total = 0 the fallback report raises no ZeroDivisionError and
\* renders its pass rate as "no data"
C5_NoDataWhenZero ==
    /\ ~(total = 0 /\ error = "ZeroDivisionError")
    /\ (html.written /\ html.total = 0) => html.pass_rate = "no data"

\* C6: when the test command of an invocation is about to start, every file
\* of the results and report directories was written by this invocation
C6_PriorArtifactsRemoved ==
    pc = "pytest" => \A f \in allure_results \cup allure_report : f.run = run

\* the second invocation is about to start its test command
C6_Witness ==
    /\ pc = "pytest" /\ run = 2
    /\ HasFile(allure_results, "environment.properties")

\* the exceptions the report steps (4 and 5) can raise
RenderErrors == {"ZeroDivisionError", "FileNotFoundError"}

\* C7: an exception raised while the report is generated or the widgets are
\* written does not leave main, and the exit status stays 0
C7_RenderFailureAbsorbed ==
    /\ error \in RenderErrors => pc # "crashed"
    /\ (error \in RenderErrors /\ pc \in {"done", "crashed"}) => exit_code = 0

\* C8: once the fallback index.html is written, main runs on to its end
\* without raising
C8_FallbackRunsToEnd ==
    html.written => pc # "crashed"

\* C10: main ends with a non-zero exit status when the test command returned
\* non-zero or a failed result was counted
C10_ExitReflectsOutcome ==
    (pc = "done" /\ (returncode # 0 \/ failed > 0)) => exit_code # 0

\* the steps of main, in the order of its text: 1 clean, 2 write the
\* descriptors, 3 run the test command, 4 aggregate, 5 generate the report,
\* 6 write the widgets, 7 open the report, 8 the closing summary, 9 ended
StepRank(p) ==
    CASE p = "start" -> 1
      [] p = "config" -> 2
      [] p \in {"pytest", "running"} -> 3
      [] p \in {"glob", "loop"} -> 4
      [] p \in {"generate", "install", "fallback"} -> 5
      [] p = "widgets" -> 6
      [] p = "open" -> 7
      [] p = "finish" -> 8
      [] OTHER -> 9

\* C14: within one process main moves through its steps in order: a step of
\* main leaves it in the same step (only the loop over the result files and
\* the loop over the report commands stay where they are) or takes it to the
\* next step, or ends the process; no step is entered again and the test
\* command is run once
C14_LinearSequence ==
    [][run' = run =>
          /\ \/ pc' = "crashed"
             \/ StepRank(pc') = StepRank(pc)
             \/ StepRank(pc') = StepRank(pc) + 1
          /\ pc' = pc => pc \in {"loop", "generate"}
          /\ StepRank(pc) > 3 => returncode' = returncode]_vars

\* the second process went through all its steps and opened the report
C14_Witness ==
    /\ pc = "done" /\ run = 2
    /\ returncode = 1 /\ total = 0
    /\ opened = "server"
    /\ HasFile(allure_report, "widgets/executors.json")

\* C15: while the test subprocess runs main is inside subprocess.run: a step
\* taken then is the end of the subprocess, and nothing else touches the
\* results directory or the counts; the glob and the loop over the result
\* files run after the subprocess has ended
C15_NoConcurrentAccess ==
    /\ [](child => pc = "running")
    /\ [](pc \in {"glob", "loop"} => (~child /\ returncode \in ReturnCodes))
    /\ [][child =>
            \/ ~child'
            \/ UNCHANGED <<results_exists, allure_results, environment_properties,
                           todo, total, passed, failed>>]_vars

\* the subprocess of the second invocation runs over the directory main
\* prepared
C15_Witness ==
    /\ child /\ pc = "running" /\ run = 2
    /\ HasFile(allure_results, "executor.json")

\* the lines of a properties file that hold an entry: those that are not
\* blank
IsEntryLine(line) == SplitWs(line) # <<>>
PropertyLines(text) == SelectSeq(SplitOn(text, Newline), IsEntryLine)

\* a key, a separator, a value
IsKeyValue(line) ==
    \E i \in 2..(Len(line) - 1) : line[i] \in {"=", ":"}

\* C16: once main has written environment.properties, every entry of the
\* file is a key paired with a value
C16_EnvironmentIsKeyValue ==
    pc \in {"pytest", "running", "glob", "loop", "generate"} =>
        LET entries == PropertyLines(environment_properties)
        IN \A i \in 1..Len(entries) : IsKeyValue(entries[i])

\* failed + broken + skipped + passed + unknown of an entry
StatusSum(e) == e.failed + e.broken + e.skipped + e.passed + e.unknown

\* C25: in every entry of history-trend.json, the "Current" entry included,
\* the five per-status counts sum to the total of the entry
C25_HistoryEntriesSumToTotal ==
    \A i \in 1..Len(history_data) :
        StatusSum(history_data[i]) = history_data[i].total

\* C26: in the "Current" entries written from failed = f and total = t with
\* 0 <= f <= t, Product defects + Test defects = f, retry = min(f, 2) <= run
\* = t, duration = 11350 + 200 * f, and no value is negative
C26_CurrentTrendEntries ==
    (pc \in {"open", "finish", "done"} /\ 0 <= failed /\ failed <= total) =>
        LET n == Len(categories_trend_data)
            c == categories_trend_data[n]
            r == retries_trend_data[Len(retries_trend_data)]
            d == duration_trend_data[Len(duration_trend_data)]
        IN /\ n = 5
           /\ c.product_defects + c.test_defects = failed
           /\ c.product_defects = (IF failed > 0 THEN failed - 1 ELSE 0)
           /\ c.test_defects = (IF failed > 0 THEN 1 ELSE 0)
           /\ c.environment_issues = 0 /\ c.automation_issues = 0
           /\ r.retry = (IF failed < 2 THEN failed ELSE 2)
           /\ r.retry <= r.run /\ r.run = total
           /\ d.duration = 11350 + 200 * failed
           /\ c.product_defects >= 0 /\ c.test_defects >= 0
           /\ r.retry >= 0 /\ r.run >= 0 /\ d.duration >= 0

\* three failed tests of three: 2 product defects, 1 test defect, 2 retries
C26_Witness ==
    /\ pc = "open"
    /\ failed = 3 /\ total = 3
    /\ categories_trend_data[5].product_defects = 2
    /\ categories_trend_data[5].test_defects = 1
    /\ retries_trend_data[5] = [retry |-> 2, run |-> 3]
    /\ duration_trend_data[5].duration = 11950

\* C27: a pass of the loop body over a file that cannot be opened or parsed
\* as JSON leaves total, passed and failed as they were; a pass over a file
\* holding JSON that is no object adds one to total and leaves passed and
\* failed; and no pass changes passed or failed without adding one to total
C27_LoopBodyPerFile ==
    [][(pc = "loop" /\ todo' # todo) =>
          \A file \in todo \ todo' :
             /\ file.content \in {"unreadable", "badjson"} =>
                    UNCHANGED <<total, passed, failed>>
             /\ file.content = "nonobject" =>
                    (total' = total + 1 /\ UNCHANGED <<passed, failed>>)
             /\ (passed' # passed \/ failed' # failed) => total' = total + 1]_vars

\* the loop went over JSON that is no object, text that is no JSON and a file
\* that cannot be opened: one was added to total, nothing to passed or failed
C27_Witness ==
    /\ pc = "loop" /\ todo = {}
    /\ {f.content : f \in ResultFiles} = {"nonobject", "badjson", "unreadable"}
    /\ total = 1 /\ passed = 0 /\ failed = 0

\* the report directory holds the index.html allure generate wrote
RichReport == \E f \in allure_report : f.suffix = "index.html" /\ f.content = "allure"

\* C23: the candidate commands are run in list order, one at a time, and none
\* is run after one succeeded; the install is reached only from the failure of
\* the fourth candidate; create_basic_html_report is reached only from the
\* failure of the install or of the generate after it; and the fallback page
\* is never written when a command has generated the report
C23_DelegationOrder ==
    /\ [](pc = "generate" => (cand \in 1..NumAllureCommands /\ ~allure_found))
    /\ [](pc \in {"install", "fallback"} =>
            (cand = NumAllureCommands + 1 /\ ~allure_found /\ ~RichReport))
    /\ [](html.written => ~RichReport)
    /\ [][run' = run =>
            /\ cand' # cand => (pc = "generate" /\ cand' = cand + 1 /\ ~allure_found')
            /\ (allure_found' /\ ~allure_found) => cand' = cand
            /\ (pc' = "install" /\ pc # "install") =>
                    (pc = "generate" /\ cand = NumAllureCommands)
            /\ (pc' = "fallback" /\ pc # "fallback") => pc = "install"
            /\ (html'.written /\ ~html.written) => pc = "fallback"]_vars

\* three candidates failed and the fourth generated the report: no install,
\* no fallback page
C23_Witness ==
    /\ pc = "widgets"
    /\ cand = NumAllureCommands
    /\ allure_found /\ RichReport /\ ~html.written

-----------------------------------------------------------------------------
(* Claims about final_qa_validation.main (SpecValidator) *)

AllFiveReturnedTrue ==
    /\ Len(validations) = Len(ValidationNames)
    /\ \A i \in 1..Len(validations) : validations[i].passed /\ ~validations[i].error

\* C9: the process exits 0 exactly when overall_success is true, which is
\* exactly when all five validations returned True; it exits 1 otherwise,
\* also when a validation raised
C9_ExitZeroIffAllPassed ==
    vpc = "exited" =>
        /\ v_exit \in {0, 1}
        /\ (v_exit = 0) <=> (overall_success = TRUE)
        /\ (overall_success = TRUE) <=> AllFiveReturnedTrue

\* one validation raised, the four others returned True, and the exit is 1
C9_Witness ==
    /\ vpc = "exited" /\ v_exit = 1
    /\ \E i \in 1..Len(validations) :
          /\ validations[i].error
          /\ \A j \in 1..Len(validations) : j # i => validations[j].passed

\* the validation a step of the validator belongs to
ValidationOf(step) ==
    CASE step \in {"collect", "collect_end"} -> 1
      [] step \in {"allure_clear", "allure_cmd", "allure_end"} -> 2
      [] step = "regression" -> 3
      [] step = "bug_discovery" -> 4
      [] step = "pipeline" -> 5
      [] step \in {"returned", "raised"} -> vi
      [] OTHER -> 0

\* validation 1 has returned and is not yet recorded
CollectionReturned == vpc = "returned" /\ vi = 1

\* the commands of validate_allure_integration run so far
AllureRecorded ==
    IF vi = 2 /\ vpc \in {"allure_cmd", "allure_end", "returned"}
    THEN validation_results.allure_integration ELSE <<>>

\* C12: a command of validate_allure_integration that was killed after the
\* timeout is recorded as failed, and the number of result files recorded
\* for it holds none of the files that command had written
C12_NoPartialResultsRead ==
    \A i \in 1..Len(AllureRecorded) :
        v_log[i].kind = "timeout" =>
            /\ ~AllureRecorded[i].command_success
            /\ AllureRecorded[i].result_files <= v_log[i].before

\* C13: when the six collection commands succeeded and the summary of the
\* regression one could not be parsed, validate_test_collection does not
\* return False
C13_ParseFailureAbsorbed ==
    (/\ CollectionReturned
     /\ \A i \in 1..Len(v_log) : v_log[i].success
     /\ ~v_log[IndexOf(TestTypes, "regression")].parsed)
        => ret = TRUE

\* the validator's counterpart of the runner's C15_NoConcurrentAccess: while
\* a command runs the validator is inside run_pytest_command, and a step
\* taken then is the end of the command
ValidatorWaitsForCommand ==
    /\ [](v_child => vpc \in CommandSteps)
    /\ [][v_child => v_child' = FALSE]_vars

\* C19: the validations are run once each in the order of the list, each
\* after the earlier ones were recorded; one that returned False or raised is
\* followed by the next; one that raised is recorded as not passed; and
\* overall_success is true exactly when all five returned True
C19_FiveValidationsInOrder ==
    /\ Len(validations) <= Len(ValidationNames)
    /\ \A i \in 1..Len(validations) :
          /\ validations[i].name = ValidationNames[i]
          /\ validations[i].error => ~validations[i].passed
    /\ ValidationOf(vpc) # 0 => Len(validations) = ValidationOf(vpc) - 1
    /\ vpc \in {"save", "summary", "exited"} =>
          Len(validations) = Len(ValidationNames)
    /\ vpc \in {"summary", "exited"} =>
          ((overall_success = TRUE) <=> AllFiveReturnedTrue)

\* the second validation raised and the third returned False; the last two
\* ran and returned True
C19_Witness ==
    /\ vpc = "summary" /\ overall_success = FALSE
    /\ Len(validations) = 5
    /\ validations[2].error
    /\ ~validations[3].passed /\ ~validations[3].error
    /\ validations[4].passed /\ validations[5].passed

\* C20: validate_test_collection returns True exactly when the count
\* recorded for regression is positive, whatever the five other counts are,
\* and a test type whose command failed has the count -1
C20_RegressionCountDecides ==
    CollectionReturned =>
        LET counts == validation_results.test_collection
        IN /\ Len(counts) = Len(TestTypes)
           /\ ret = (counts[IndexOf(TestTypes, "regression")] > 0)
           /\ \A i \in 1..Len(counts) : ~v_log[i].success => counts[i] = 0 - 1

\* True was returned although the unit command failed and the summary of the
\* integration command could not be parsed
C20_Witness ==
    /\ CollectionReturned /\ ret = TRUE
    /\ validation_results.test_collection[IndexOf(TestTypes, "unit")] = 0 - 1
    /\ validation_results.test_collection[IndexOf(TestTypes, "integration")] = 0
    /\ validation_results.test_collection[IndexOf(TestTypes, "regression")] > 0

\* validation i has returned and is not yet recorded
Returned(i) == vpc = "returned" /\ vi = i

\* C21: validate_regression_suite returns True when its command exited 0 or
\* printed "collected" before it exited, so also when tests failed; it returns
\* False when the command was killed after the timeout, whatever it had
\* printed, or could not be started
C21_RegressionRunsSuffice ==
    Returned(IndexOf(ValidationNames, "regression_suite")) =>
        LET o == v_log[1]
        IN /\ (o.kind = "completed" /\ (o.rc = 0 \/ Contains(o.out, Collected)))
                 => ret = TRUE
           /\ o.kind \in {"timeout", "oserror"} => ret = FALSE

\* a regression run with a failed test exited 1, and True was returned
C21_Witness ==
    /\ Returned(IndexOf(ValidationNames, "regression_suite"))
    /\ v_log[1].kind = "completed" /\ v_log[1].rc = 1
    /\ v_log[1].out = RunOneFailed
    /\ ret = TRUE
    /\ validation_results.regression_suite.execution_success = FALSE

\* C22: validate_bug_discovery and validate_complete_pipeline return True
\* exactly when the stdout run_pytest_command returned holds "collected",
\* whatever the exit code; they return False after a timeout and when the
\* command could not be started
C22_CollectedDecides ==
    (\/ Returned(IndexOf(ValidationNames, "bug_discovery"))
     \/ Returned(IndexOf(ValidationNames, "complete_pipeline"))) =>
        LET o == v_log[1]
        IN /\ ret = Contains(run_pytest_command(o).stdout, Collected)
           /\ o.kind = "completed" => ret = Contains(o.out, Collected)
           /\ o.kind \in {"timeout", "oserror"} => ret = FALSE

\* the bug discovery command exited 1 and had printed "collected": True
C22_Witness ==
    /\ Returned(IndexOf(ValidationNames, "bug_discovery"))
    /\ v_log[1].kind = "completed" /\ v_log[1].rc = 1
    /\ Contains(v_log[1].out, Collected)
    /\ ret = TRUE

\* the JSON files the first i commands of validate_allure_integration wrote
WrittenUpTo(i) == SumSeq([j \in 1..i |-> v_log[j].wrote])

\* C28: validate_allure_integration removes allure-results only in its first
\* step, before the first command, and not between or after the commands; the
\* result_files recorded for a command is the number of JSON files all the
\* commands up to it have written, so it does not decrease from regression
\* to unit to integration; and True is returned exactly when the recorded
\* numbers sum to more than 0
C28_ClearedOnceThenCumulative ==
    /\ [](\A i \in 1..Len(AllureRecorded) :
            /\ AllureRecorded[i].result_files = WrittenUpTo(i)
            /\ AllureRecorded[i].result_files = v_log[i].before + v_log[i].wrote
            /\ i > 1 => AllureRecorded[i].result_files
                            >= AllureRecorded[i - 1].result_files)
    /\ [](Returned(IndexOf(ValidationNames, "allure_integration")) =>
            ret = (SumSeq([i \in 1..Len(AllureRecorded) |->
                              AllureRecorded[i].result_files]) > 0))
    /\ [][/\ ((v_exists /\ ~v_exists') \/ v_json' < v_json) => vpc = "allure_clear"
          /\ vpc' = "allure_clear" => vpc \notin {"allure_clear", "allure_cmd",
                                                  "allure_end"}]_vars

\* the regression command wrote one file, the unit command none and the
\* integration command one: 1, 1 and 2 are recorded and True is returned
C28_Witness ==
    /\ Returned(IndexOf(ValidationNames, "allure_integration"))
    /\ Len(AllureRecorded) = Len(AllureTypes)
    /\ AllureRecorded[1].result_files = 1
    /\ AllureRecorded[2].result_files = 1
    /\ AllureRecorded[3].result_files = 2
    /\ ret = TRUE

-----------------------------------------------------------------------------
(* Claims about test_concurrent_processing_bug (SpecWorkers) *)

\* C17: once the five threads are joined, the five values they appended to
\* results are pairwise distinct
C17_RecordedValuesDistinct ==
    t_pc \in {"assert", "passed", "failed"} =>
        /\ Len(results) = NumWorkers
        /\ \A i \in 1..Len(results), j \in 1..Len(results) :
              i # j => results[i] # results[j]

-----------------------------------------------------------------------------
(* Claims about test_pipeline_failure_recovery (SpecRecovery) *)

\* C18: whatever the calls of the primary do, the loop ends, after at most
\* max_attempts calls of the primary; result is then the value the primary
\* returned, or the value of the backup when every call of the primary
\* raised, and not None; and handle_failure was called once for each call of
\* the primary that raised
C18_RecoveryTerminates ==
    /\ <>(rec_pc = "done")
    /\ [](primary_calls <= max_attempts)
    /\ [](handle_calls = failures - (IF rec_pc = "except" THEN 1 ELSE 0))
    /\ [](rec_pc \in {"verify", "done"} =>
             /\ result # NoResult
             /\ result = (IF failures = primary_calls
                          THEN "backup_success" ELSE "success_result")
             /\ handle_calls = failures)

\* two calls of the primary raised, the third returned
C18_Witness ==
    /\ rec_pc = "done"
    /\ primary_calls = 3 /\ failures = 2 /\ handle_calls = 2
    /\ result = "success_result" /\ backup_calls = 0

\* C24: the backup is called exactly when the primary raised in all
\* max_attempts attempts, and then once: it is called only after the
\* max_attempts-th failure, never twice, and not at all when a call of the
\* primary returned
C24_BackupIffAllFailed ==
    /\ [](backup_calls <= 1)
    /\ [](failures < primary_calls => backup_calls = 0)
    /\ [](rec_pc \in {"verify", "done"} =>
            (backup_calls = 1 <=> (failures = max_attempts
                                    /\ primary_calls = max_attempts)))
    /\ [][backup_calls' # backup_calls =>
            /\ backup_calls' = backup_calls + 1
            /\ failures = max_attempts
            /\ primary_calls = max_attempts]_vars

\* the primary raised three times and the backup was called once
C24_Witness ==
    /\ rec_pc = "done"
    /\ primary_calls = max_attempts /\ failures = max_attempts
    /\ backup_calls = 1 /\ result = "backup_success"

-----------------------------------------------------------------------------
(* Claims about find_available_port (SpecPort) *)

\* the ports of range(start_port, start_port + 100)
PortsOfRange == start_port..(start_port + PortRange - 1)

\* C29: find_available_port(start) returns a port p with start <= p <=
\* start + 99: the lowest port of the range on which bind succeeded, every
\* port below it having been tried and refused, or start itself when bind was
\* refused on all hundred; the ports are tried in increasing order, one step
\* at a time, and none is tried after a bind succeeded
C29_LowestBindablePort ==
    /\ [](fp_pc = "for" => (~bound /\ bind_raised = start_port..(port - 1)))
    /\ [](fp_pc = "returned" =>
            /\ fp_result \in PortsOfRange
            /\ IF bound
               THEN /\ fp_result \notin bind_raised
                    /\ bind_raised = start_port..(fp_result - 1)
               ELSE /\ bind_raised = PortsOfRange
                    /\ fp_result = start_port)
    /\ [][/\ port' # port => port' = port + 1
          /\ bound => UNCHANGED <<port, bind_raised, fp_result>>]_vars

\* bind was refused on 64678 and 64679 and succeeded on 64680
C29_Witness ==
    /\ fp_pc = "returned" /\ bound
    /\ fp_result = start_port + 2
    /\ bind_raised = {start_port, start_port + 1}

\* bind was refused on every port of the range: the start port is returned
C29_FallbackReached ==
    /\ fp_pc = "returned" /\ ~bound
    /\ fp_result = start_port
    /\ Cardinality(bind_raised) = PortRange

=============================================================================
